---- MODULE Spec2Model ----
(***************************************************************************)
(* Model of src/main.rs: a command-line driver that, for each domain,     *)
(* spawns one thread per URL provider (Wayback, CommonCrawl, VirusTotal),  *)
(* merges what the providers return into a mutex-protected HashMap keyed   *)
(* by URL, joins the threads and prints the map.                           *)
(*                                                                         *)
(* Strings that the program only copies and compares (domains, URLs, urlkey*)
(* columns) are TLA+ strings.  A formatted string (format!, println!) is   *)
(* the sequence of its non-empty pieces.  A date string is decomposed into *)
(* its characters by Chars when the program parses it.                     *)
(***************************************************************************)
EXTENDS Integers, Sequences, FiniteSets, TLC

\* ------------------------------------------------------------------------
\* Bounds of the model
\* ------------------------------------------------------------------------

\* command-line tokens after the program name
MaxArgs == 2
\* lines on standard input
MaxLines == 2
\* records (rows, lines, detected_urls elements) in one provider response
MaxRows == 2

\* ------------------------------------------------------------------------
\* Helpers
\* ------------------------------------------------------------------------

Range(s) == {s[i] : i \in 1..Len(s)}

SeqsUpTo(S, n) == UNION {[1..k -> S] : k \in 0..n}

\* format!/println!: the concatenation of the pieces (an empty piece adds
\* nothing to the string)
Fmt(pieces) == SelectSeq(pieces, LAMBDA s : s # "")

\* struct Wurl
Wurl(date, url) == [date |-> date, url |-> url]

\* ------------------------------------------------------------------------
\* JSON values as far as the decoders look at them
\* ------------------------------------------------------------------------

\* a JSON string with value s
JStr(s) == [isStr |-> TRUE, v |-> s]
\* a JSON value that is present but is not a string (a number)
JNum == [isStr |-> FALSE, v |-> "0"]
\* an object member that is missing: indexing a serde_json Value by a missing
\* key gives Null, and Null.as_str() is None
JMissing == [isStr |-> FALSE, v |-> "null"]

\* Value::as_str
as_str(j) == IF j.isStr THEN <<j.v>> ELSE <<>>

\* ------------------------------------------------------------------------
\* Provider responses (what the network returns to reqwest::get + text())
\* ------------------------------------------------------------------------
\* err    the request or the body read failed (reqwest::Error)
\* valid  the body text is JSON of the outermost shape the decoder expects
\* items  the rows / lines / detected_urls elements of the body

TransportError == [err |-> TRUE, valid |-> FALSE, items |-> <<>>]
Garbage == [err |-> FALSE, valid |-> FALSE, items |-> <<>>]
Body(items) == [err |-> FALSE, valid |-> TRUE, items |-> items]

\* the literals used as data in the model
U1 == "http://x/1"
U2 == "http://x/2"
D2018 == "20180101000000"
D2020 == "20200101000000"
DShort == "2018"
DDashed == "2018-01-01"

\* Wayback: an array of rows, the first one the header row
WaybackHeader == <<JStr("urlkey"), JStr("timestamp"), JStr("original")>>
WaybackRow(date, url) == <<JStr("urlkey"), JStr(date), JStr(url)>>
\* a row with fewer than three columns
WaybackShortRow == <<JStr("urlkey"), JStr(D2018)>>
\* a row with a column that is not a JSON string
WaybackNumRow == <<JStr("urlkey"), JNum, JStr(U1)>>

\* CommonCrawl: one JSON object per line
CrawlLine(ts, url) == [url |-> url, json |-> TRUE, timestamp |-> ts]
\* a line that is not JSON at all
CrawlBadLine == [url |-> JMissing, json |-> FALSE, timestamp |-> JMissing]

\* VirusTotal: an object with a detected_urls array of objects
VtElem(url) == [url |-> url]

\* ------------------------------------------------------------------------
\* The providers
\* ------------------------------------------------------------------------

Ok(list) == [kind |-> "Ok", out |-> list]
OkEmpty == Ok(<<>>)
Err == [kind |-> "Err", out |-> <<>>]
Panic == [kind |-> "panic", out |-> <<>>]

\* the two arms of lines 18 and 42 exchanged
subs_wildcard_swapped(no_subs) == IF no_subs THEN "*." ELSE ""

\* lines 18, 42: `let subs_wildcard = if no_subs { "" } else { "*." }`
subs_wildcard(no_subs) == IF no_subs THEN "" ELSE "*."

\* the request URL of get_wayback_urls
wayback_url(domain, no_subs) ==
    Fmt(<<"http://web.archive.org/cdx/search/cdx?url=",
          subs_wildcard(no_subs), domain, "/*", "&output=json&collapse=urlkey">>)

\* serde_json::from_str::<Vec<Vec<String>>>(..).unwrap_or_default(): the rows
\* when the text is an array of arrays of strings, else the empty vector
wayback_wrapper(resp) ==
    IF resp.valid /\ \A i \in 1..Len(resp.items) :
                        \A j \in 1..Len(resp.items[i]) : resp.items[i][j].isStr
    THEN resp.items
    ELSE <<>>

\* the loop over wrapper: rows after the first one become Wurl {urls[1], urls[2]}
RECURSIVE wayback_out(_, _)
wayback_out(wrapper, i) ==
    IF i > Len(wrapper) THEN <<>>
    ELSE IF i = 1 THEN wayback_out(wrapper, i + 1)
    ELSE <<Wurl(wrapper[i][2].v, wrapper[i][3].v)>> \o wayback_out(wrapper, i + 1)

\* get_wayback_urls after the request: Err from `?`, a panic when a row after
\* the first is indexed out of bounds (urls[1], urls[2]), else Ok(out)
get_wayback_urls(resp) ==
    IF resp.err THEN Err
    ELSE LET wrapper == wayback_wrapper(resp) IN
         IF \E i \in 2..Len(wrapper) : Len(wrapper[i]) < 3 THEN Panic
         ELSE Ok(wayback_out(wrapper, 1))

\* the request URL of get_common_crawl_urls
common_crawl_url(domain, no_subs) ==
    Fmt(<<"http://index.commoncrawl.org/CC-MAIN-2018-22-index?url=",
          subs_wildcard(no_subs), domain, "/*", "&output=json">>)

\* the loop over lines: a line is kept when it parses as JSON and both
\* "timestamp" and "url" are strings
RECURSIVE common_crawl_out(_, _)
common_crawl_out(lines, i) ==
    IF i > Len(lines) THEN <<>>
    ELSE LET line == lines[i]
             date == as_str(line.timestamp)
             url == as_str(line.url)
         IN (IF line.json /\ date # <<>> /\ url # <<>>
             THEN <<Wurl(date[1], url[1])>> ELSE <<>>)
            \o common_crawl_out(lines, i + 1)

get_common_crawl_urls(resp) ==
    IF resp.err THEN Err ELSE Ok(common_crawl_out(resp.items, 1))

\* the request URL of get_virus_total_urls
virus_total_url(api_key, domain) ==
    Fmt(<<"https://www.virustotal.com/vtapi/v2/domain/report?apikey=",
          api_key, "&domain=", domain>>)

\* the loop over detected_urls: an element is kept when its "url" is a string;
\* the date is always empty
RECURSIVE virus_total_out(_, _)
virus_total_out(urls, i) ==
    IF i > Len(urls) THEN <<>>
    ELSE LET url == as_str(urls[i].url)
         IN (IF url # <<>> THEN <<Wurl("", url[1])>> ELSE <<>>)
            \o virus_total_out(urls, i + 1)

\* get_virus_total_urls: Ok(empty) without a request when VT_API_KEY is unset
\* or empty; an undecodable body is Value::Null, which has no detected_urls
get_virus_total_urls(api_key, resp) ==
    IF api_key = "" THEN OkEmpty
    ELSE IF resp.err THEN Err
    ELSE IF resp.valid THEN Ok(virus_total_out(resp.items, 1))
    ELSE OkEmpty

\* ------------------------------------------------------------------------
\* Date parsing and formatting (chrono), as used by the emitter
\* ------------------------------------------------------------------------

Digits == <<"0", "1", "2", "3", "4", "5", "6", "7", "8", "9">>
DigitSet == Range(Digits)
IsDigit(c) == c \in DigitSet
DigitVal(c) == (CHOOSE n \in 1..10 : Digits[n] = c) - 1

\* the characters of the date strings of the model
Chars(s) ==
    CASE s = "" -> <<>>
      [] s = D2018 -> <<"2","0","1","8","0","1","0","1","0","0","0","0","0","0">>
      [] s = D2020 -> <<"2","0","2","0","0","1","0","1","0","0","0","0","0","0">>
      [] s = DShort -> <<"2","0","1","8">>
      [] s = DDashed -> <<"2","0","1","8","-","0","1","-","0","1">>

\* the field widths of the items of "%Y%m%d%H%M%S"
FormatWidths == <<4, 2, 2, 2, 2, 2>>

\* scan::number(s, 1, width): the number of leading digits taken, at most width
RECURSIVE DigitRun(_, _)
DigitRun(cs, width) ==
    IF width = 0 \/ cs = <<>> \/ ~IsDigit(Head(cs)) THEN 0
    ELSE 1 + DigitRun(Tail(cs), width - 1)

RECURSIVE NumVal(_)
NumVal(cs) == IF cs = <<>> THEN 0
              ELSE 10 * NumVal(SubSeq(cs, 1, Len(cs) - 1)) + DigitVal(cs[Len(cs)])

\* format::parse over the numeric items: each takes 1..width digits; input
\* left over after the last item is an error
RECURSIVE parse_items(_, _, _)
parse_items(cs, k, acc) ==
    IF k > Len(FormatWidths)
    THEN [ok |-> cs = <<>>, fields |-> acc, offset |-> <<>>]
    ELSE LET n == DigitRun(cs, FormatWidths[k]) IN
         IF n = 0 THEN [ok |-> FALSE, fields |-> acc, offset |-> <<>>]
         ELSE parse_items(SubSeq(cs, n + 1, Len(cs)), k + 1,
                          Append(acc, NumVal(SubSeq(cs, 1, n))))

\* Err(ParseError)
ParseError == [ok |-> FALSE, fields |-> <<>>]

\* Parsed::to_datetime: the offset is required (NOT_ENOUGH without it), then
\* the fields must name a date and a time
to_datetime(parsed) ==
    IF parsed.offset = <<>> THEN ParseError
    ELSE LET f == parsed.fields IN
         [ok |-> /\ f[2] \in 1..12 /\ f[3] \in 1..31
                 /\ f[4] \in 0..23 /\ f[5] \in 0..59 /\ f[6] \in 0..60,
          fields |-> f]

\* DateTime::parse_from_str(&date, "%Y%m%d%H%M%S"): the format has no offset
\* item, so the parsed offset is never set
parse_from_str(date) ==
    LET parsed == parse_items(Chars(date), 1, <<>>) IN
    IF parsed.ok THEN to_datetime(parsed) ELSE ParseError

\* the dates of the responses, and parse_from_str on each of them, computed
\* once
DateStrings == {"", D2018, D2020, DShort, DDashed}
ParsedDates == [date \in DateStrings |-> parse_from_str(date)]

\* n as `width` decimal digits
RECURSIVE Pad(_, _)
Pad(n, width) == IF width = 0 THEN <<>>
                 ELSE Append(Pad(n \div 10, width - 1), Digits[(n % 10) + 1])

\* with_timezone(&Utc).to_rfc3339()
to_rfc3339(f) ==
    Pad(f[1], 4) \o <<"-">> \o Pad(f[2], 2) \o <<"-">> \o Pad(f[3], 2) \o <<"T">>
    \o Pad(f[4], 2) \o <<":">> \o Pad(f[5], 2) \o <<":">> \o Pad(f[6], 2)
    \o <<"+00:00">>

\* println!("{} {}", .., url)
DatedLine(ts, url) == Fmt(ts \o <<" ", url>>)
\* println!("{}", url)
UrlLine(url) == Fmt(<<url>>)
\* eprintln!("failed to parse date [{}] for URL [{}]", date, url)
DiagLine(date, url) ==
    Fmt(<<"failed to parse date [", date, "] for URL [", url, "]">>)

\* ------------------------------------------------------------------------
\* The inputs of a run
\* ------------------------------------------------------------------------

\* the tokens a command line is made of
Tokens == {"--dates", "--no-subs", "--get-versions", "example.com"}
Flags == {"--dates", "--no-subs", "--get-versions"}
\* the lines standard input is made of
StdinLines == {"example.com", "example.org"}
\* the values of the environment variable VT_API_KEY ("" also stands for unset)
ApiKeys == {"", "KEY"}

\* fetch_fns, in the order of the vector
fetch_fns == <<"wayback", "common_crawl", "virus_total">>
Providers == 1..Len(fetch_fns)

\* the rows, lines and elements responses are made of
WaybackRows == {WaybackRow(D2018, U1), WaybackRow(D2020, U1), WaybackRow(D2018, U2),
                WaybackShortRow, WaybackNumRow}
CrawlLines == {CrawlLine(JStr(D2020), JStr(U1)), CrawlLine(JStr(DShort), JStr(U2)),
               CrawlLine(JStr(D2018), JStr("")), CrawlLine(JMissing, JStr(U2)),
               CrawlLine(JStr(D2018), JNum), CrawlBadLine}
VtElems == {VtElem(JStr(U1)), VtElem(JStr(U2)), VtElem(JStr("")), VtElem(JMissing),
            VtElem(JNum)}

\* every response of at most MaxRows records
AllWaybackResponses ==
    {TransportError, Garbage, Body(<<>>)}
    \cup {Body(<<WaybackHeader>> \o rs) : rs \in SeqsUpTo(WaybackRows, MaxRows)}
AllCrawlResponses ==
    {TransportError} \cup {Body(ls) : ls \in SeqsUpTo(CrawlLines, MaxRows)}
AllVtResponses ==
    {TransportError, Garbage} \cup {Body(es) : es \in SeqsUpTo(VtElems, MaxRows)}
AllResponses(p) ==
    CASE fetch_fns[p] = "wayback" -> AllWaybackResponses
      [] fetch_fns[p] = "common_crawl" -> AllCrawlResponses
      [] fetch_fns[p] = "virus_total" -> AllVtResponses

\* the responses the providers get when they all answer in the same run
WaybackResponses ==
    {TransportError,
     Body(<<WaybackHeader, WaybackRow(D2018, U1), WaybackRow(D2018, U2)>>),
     Body(<<WaybackHeader, WaybackRow(D2018, U1), WaybackRow(D2020, U1)>>),
     Body(<<WaybackHeader, WaybackShortRow, WaybackRow(D2018, U1)>>)}
CrawlResponses ==
    {TransportError,
     Body(<<CrawlLine(JStr(D2020), JStr(U1))>>),
     Body(<<CrawlLine(JStr(D2020), JStr(U1)), CrawlLine(JStr(D2020), JStr(U2))>>),
     Body(<<CrawlLine(JStr(D2018), JStr("")), CrawlBadLine>>)}
VtResponses ==
    {TransportError,
     Body(<<VtElem(JStr(U2))>>),
     Body(<<VtElem(JStr(U1)), VtElem(JMissing)>>)}
Responses(p) ==
    CASE fetch_fns[p] = "wayback" -> WaybackResponses
      [] fetch_fns[p] = "common_crawl" -> CrawlResponses
      [] fetch_fns[p] = "virus_total" -> VtResponses

\* the placeholder of a response that was never requested
NoResponse == [err |-> FALSE, valid |-> FALSE, items |-> <<"none">>]
OnlyNoResponse == {NoResponse}
OnlyTransportError == {TransportError}
\* a thread that has no answer, or no answer but a failure
Unanswered == {NoResponse, TransportError}

\* ------------------------------------------------------------------------
\* State
\* ------------------------------------------------------------------------

VARIABLES
    args,               \* env::args(), program name first
    stdin,              \* the lines of standard input
    VT_API_KEY,         \* the environment variable
    mainpc,             \* where main is
    dates, no_subs, get_versions_flag, domains,
    di,                 \* index in domains of the domain being processed
    results,            \* the HashMap url -> date, as its set of entries
    lock,               \* the Mutex: 0 when free, else the provider holding it
    handles,            \* number of threads spawned for this domain
    joined,             \* number of handles joined
    tpc,                \* where each provider thread is
    request,            \* the URL each provider thread requested
    response,           \* the response each provider thread received
    res,                \* what is left of `for w in res` in each thread
    iter,               \* what is left of `for (url, date) in results`
    stdout, stderr      \* the lines written while the current domain is processed
                        \* (earlier lines have left the process)

vars == <<args, stdin, VT_API_KEY, mainpc, dates, no_subs, get_versions_flag,
          domains, di, results, lock, handles, joined, tpc, request, response,
          res, iter, stdout, stderr>>

inputVars == <<args, stdin, VT_API_KEY>>
flagVars == <<dates, no_subs, get_versions_flag, domains>>
taskVars == <<tpc, request, response, res>>
outVars == <<stdout, stderr>>

\* the state of the threads before they are spawned
NoThreads == [p \in Providers |-> "none"]
NoRequests == [p \in Providers |-> <<>>]
NoResponses == [p \in Providers |-> NoResponse]
NoRecords == [p \in Providers |-> <<>>]

\* the command lines and the contents of standard input
ArgLists == {<<"spinner">> \o a : a \in SeqsUpTo(Tokens, MaxArgs)}
StdinContents == SeqsUpTo(StdinLines, MaxLines)
UnreadStdin == {<<"example.org">>}

Init ==
    /\ args \in ArgLists
    \* standard input is only ever read when there is no argument, so one
    \* content is enough when there is one
    /\ stdin \in IF Len(args) > 1 THEN UnreadStdin ELSE StdinContents
    /\ VT_API_KEY \in ApiKeys
    /\ mainpc = "args"
    /\ dates = FALSE /\ no_subs = FALSE /\ get_versions_flag = FALSE
    /\ domains = <<>>
    /\ di = 0
    /\ results = {}
    /\ lock = 0
    /\ handles = 0 /\ joined = 0
    /\ tpc = NoThreads
    /\ request = NoRequests
    /\ response = NoResponses
    /\ res = NoRecords
    /\ iter = {}
    /\ stdout = <<>> /\ stderr = <<>>

\* ------------------------------------------------------------------------
\* main
\* ------------------------------------------------------------------------

\* the domain list: every argument after the program name when there is one,
\* else the lines of standard input
domains_of(a, input) == IF Len(a) > 1 THEN SubSeq(a, 2, Len(a)) ELSE input

\* lines 102-113: flags and domains
ParseArgs ==
    /\ mainpc = "args"
    /\ dates' = ("--dates" \in Range(args))
    /\ no_subs' = ("--no-subs" \in Range(args))
    /\ get_versions_flag' = ("--get-versions" \in Range(args))
    /\ domains' = domains_of(args, stdin)
    /\ mainpc' = IF "--get-versions" \in Range(args) THEN "versions" ELSE "domain"
    /\ UNCHANGED <<inputVars, di, results, lock, handles, joined, taskVars, iter,
                   outVars>>

\* lines 115-123: get_versions returns no version for any domain, so the loop
\* prints nothing, and main returns
GetVersions ==
    /\ mainpc = "versions"
    /\ mainpc' = "done"
    /\ UNCHANGED <<inputVars, flagVars, di, results, lock, handles, joined,
                   taskVars, iter, outVars>>

\* a map created before the loop over the domains: it is never emptied
StartDomain_keep ==
    /\ mainpc = "domain"
    /\ di < Len(domains)
    /\ di' = di + 1
    /\ lock' = 0
    /\ handles' = 0 /\ joined' = 0
    /\ tpc' = NoThreads
    /\ request' = NoRequests
    /\ response' = NoResponses
    /\ res' = NoRecords
    /\ iter' = {}
    /\ stdout' = <<>> /\ stderr' = <<>>
    /\ mainpc' = "spawn"
    /\ UNCHANGED <<inputVars, flagVars, results>>

\* a pipeline: the next domain starts while the last one is being emitted
StartDomain_early ==
    /\ mainpc = "domain" \/ mainpc = "emit"
    /\ di < Len(domains)
    /\ di' = di + 1
    /\ results' = {}
    /\ lock' = 0
    /\ handles' = 0 /\ joined' = 0
    /\ tpc' = NoThreads
    /\ request' = NoRequests
    /\ response' = NoResponses
    /\ res' = NoRecords
    /\ iter' = {}
    /\ stdout' = <<>> /\ stderr' = <<>>
    /\ mainpc' = "spawn"
    /\ UNCHANGED <<inputVars, flagVars>>

\* lines 140-142: the next domain, with a new map and no handles
StartDomain ==
    /\ mainpc = "domain"
    /\ di < Len(domains)
    /\ di' = di + 1
    /\ results' = {}
    /\ lock' = 0
    /\ handles' = 0 /\ joined' = 0
    /\ tpc' = NoThreads
    /\ request' = NoRequests
    /\ response' = NoResponses
    /\ res' = NoRecords
    /\ iter' = {}
    /\ stdout' = <<>> /\ stderr' = <<>>
    /\ mainpc' = "spawn"
    /\ UNCHANGED <<inputVars, flagVars>>

\* line 140 after the last domain: main returns
Finish ==
    /\ mainpc = "domain"
    /\ di = Len(domains)
    /\ mainpc' = "done"
    /\ UNCHANGED <<inputVars, flagVars, di, results, lock, handles, joined,
                   taskVars, iter, outVars>>

\* lines 144-156: spawn the thread of the next fetch_fn
Spawn ==
    /\ mainpc = "spawn"
    /\ handles' = handles + 1
    /\ tpc' = [tpc EXCEPT ![handles + 1] = "fetch"]
    /\ mainpc' = IF handles + 1 = Len(fetch_fns) THEN "join" ELSE "spawn"
    /\ UNCHANGED <<inputVars, flagVars, di, results, lock, joined, request,
                   response, res, iter, outVars>>

\* ------------------------------------------------------------------------
\* The provider threads
\* ------------------------------------------------------------------------

\* a third closure that requests without looking at the key
request_url_unchecked(p, domain, nosubs, api_key) ==
    CASE fetch_fns[p] = "wayback" -> wayback_url(domain, nosubs)
      [] fetch_fns[p] = "common_crawl" -> common_crawl_url(domain, nosubs)
      [] fetch_fns[p] = "virus_total" -> virus_total_url(api_key, domain)

\* lines 125-138: the URL the closure of provider p requests ("no request" is
\* the empty string); the third closure drops no_subs
request_url(p, domain, nosubs, api_key) ==
    CASE fetch_fns[p] = "wayback" -> wayback_url(domain, nosubs)
      [] fetch_fns[p] = "common_crawl" -> common_crawl_url(domain, nosubs)
      [] fetch_fns[p] = "virus_total" ->
           IF api_key = "" THEN <<>> ELSE virus_total_url(api_key, domain)

\* lines 125-138: what the closure of provider p returns on response resp
fetch_fn(p, api_key, resp) ==
    CASE fetch_fns[p] = "wayback" -> get_wayback_urls(resp)
      [] fetch_fns[p] = "common_crawl" -> get_common_crawl_urls(resp)
      [] fetch_fns[p] = "virus_total" -> get_virus_total_urls(api_key, resp)

\* an insert that takes an entry out when it is already there
insert_toggle(map, url, date) ==
    IF <<url, date>> \in map THEN map \ {<<url, date>>}
    ELSE {e \in map : e[1] # url} \cup {<<url, date>>}

\* a list in place of the map: a second record of a URL is a second entry
insert_push(map, url, date) == map \cup {<<url, date>>}

\* entry(url).or_insert(date) in place of insert: the first date stays
insert_if_absent(map, url, date) ==
    IF \E e \in map : e[1] = url THEN map ELSE map \cup {<<url, date>>}

\* HashMap::insert: the entry of the key is replaced
insert(map, url, date) == {e \in map : e[1] # url} \cup {<<url, date>>}

\* fetch_fn(..).unwrap() in place of `if let Ok`: an Err panics the thread
after_fetch_unwrap(kind) ==
    CASE kind = "Ok" -> "lock"
      [] kind = "Err" -> "panicked"
      [] kind = "panic" -> "panicked"

\* lines 150-152: the whole loop `for w in res { results.insert(..) }` on a map
RECURSIVE merge(_, _)
merge(map, list) ==
    IF list = <<>> THEN map
    ELSE merge(insert(map, Head(list).url, Head(list).date), Tail(list))

\* line 148, `if let Ok(res) = ..`: where the thread goes after fetch_fn
after_fetch(kind) ==
    CASE kind = "Ok" -> "lock"
      [] kind = "Err" -> "done"
      [] kind = "panic" -> "panicked"

\* a loop that stops after its first turn
next_turn_break(list) == <<>>

\* line 150, `for w in res`: what is left of res after one turn
next_turn(list) == Tail(list)

\* the message a panicking provider thread leaves on stderr
ThreadPanicLine == <<"thread <unnamed> panicked: index out of bounds">>
\* the message of main's panic on join().unwrap()
MainPanicLine == <<"thread main panicked: called Result::unwrap() on an Err value">>

\* the process is alive: threads run until main returns or panics
Running == mainpc # "done" /\ mainpc # "panicked"

\* line 148: the call of fetch_fn, the network answering with one of `answers`;
\* Ok goes on to the lock, Err ends the thread, a panic ends it with a message
FetchFrom(p, answers) ==
    /\ Running
    /\ tpc[p] = "fetch"
    /\ \E resp \in IF request_url(p, domains[di], no_subs, VT_API_KEY) = <<>>
                   THEN OnlyNoResponse ELSE answers :
         LET r == fetch_fn(p, VT_API_KEY, resp) IN
         /\ request' = [request EXCEPT
                          ![p] = request_url(p, domains[di], no_subs, VT_API_KEY)]
         /\ response' = [response EXCEPT ![p] = resp]
         /\ res' = [res EXCEPT ![p] = r.out]
         /\ tpc' = [tpc EXCEPT ![p] = after_fetch(r.kind)]
         /\ stderr' = IF r.kind = "panic" THEN Append(stderr, ThreadPanicLine)
                      ELSE stderr
    /\ UNCHANGED <<inputVars, flagVars, mainpc, di, results, lock, handles,
                   joined, iter, stdout>>

\* the providers all answer, each with one of Responses
Fetch(p) == FetchFrom(p, Responses(p))

\* one provider answers with any response of at most MaxRows records, the
\* requests of the others fail
FetchAlone(p) ==
    FetchFrom(p, IF \E q \in Providers : q # p /\ response[q] \notin Unanswered
                 THEN OnlyTransportError
                 ELSE AllResponses(p))

\* a map without its Mutex: the thread goes on whoever is writing
Lock_unguarded(p) ==
    /\ Running
    /\ tpc[p] = "lock"
    /\ lock' = p
    /\ tpc' = [tpc EXCEPT ![p] = "insert"]
    /\ UNCHANGED <<inputVars, flagVars, mainpc, di, results, handles, joined,
                   request, response, res, iter, outVars>>

\* line 149: results.lock().unwrap()
Lock(p) ==
    /\ Running
    /\ tpc[p] = "lock"
    /\ lock = 0
    /\ lock' = p
    /\ tpc' = [tpc EXCEPT ![p] = "insert"]
    /\ UNCHANGED <<inputVars, flagVars, mainpc, di, results, handles, joined,
                   request, response, res, iter, outVars>>

\* a lock taken inside the loop: the guard is dropped after every insert
Insert_unlocking(p) ==
    /\ Running
    /\ tpc[p] = "insert"
    /\ res[p] # <<>>
    /\ results' = insert(results, Head(res[p]).url, Head(res[p]).date)
    /\ res' = [res EXCEPT ![p] = next_turn(res[p])]
    /\ lock' = 0
    /\ tpc' = [tpc EXCEPT ![p] = IF next_turn(res[p]) = <<>> THEN "done" ELSE "lock"]
    /\ UNCHANGED <<inputVars, flagVars, mainpc, di, handles, joined,
                   request, response, iter, outVars>>

\* lines 150-152: one turn of `for w in res`
Insert(p) ==
    /\ Running
    /\ tpc[p] = "insert"
    /\ res[p] # <<>>
    /\ results' = insert(results, Head(res[p]).url, Head(res[p]).date)
    /\ res' = [res EXCEPT ![p] = next_turn(res[p])]
    /\ UNCHANGED <<inputVars, flagVars, mainpc, di, lock, handles, joined, tpc,
                   request, response, iter, outVars>>

\* a guard that is forgotten (mem::forget): the thread ends with the lock
Unlock_leak(p) ==
    /\ Running
    /\ tpc[p] = "insert"
    /\ res[p] = <<>>
    /\ tpc' = [tpc EXCEPT ![p] = "done"]
    /\ UNCHANGED <<inputVars, flagVars, mainpc, di, results, lock, handles,
                   joined, request, response, res, iter, outVars>>

\* lines 152-154: the loop is over, the guard is dropped, the thread ends
Unlock(p) ==
    /\ Running
    /\ tpc[p] = "insert"
    /\ res[p] = <<>>
    /\ lock' = 0
    /\ tpc' = [tpc EXCEPT ![p] = "done"]
    /\ UNCHANGED <<inputVars, flagVars, mainpc, di, results, handles, joined,
                   request, response, res, iter, outVars>>

\* ------------------------------------------------------------------------
\* main, continued
\* ------------------------------------------------------------------------

\* a race in place of the join: main goes on when the first thread has ended
Join_race ==
    /\ mainpc = "join"
    /\ \E p \in Providers : tpc[p] = "done"
    /\ joined' = handles
    /\ mainpc' = "unwrap"
    /\ UNCHANGED <<inputVars, flagVars, di, results, lock, handles, taskVars,
                   iter, outVars>>

\* lines 158-160: handle.join().unwrap() on the next handle; the join of a
\* thread that panicked is an Err, and main panics on it
Join ==
    /\ mainpc = "join"
    /\ (tpc[joined + 1] = "done" \/ tpc[joined + 1] = "panicked")
    /\ IF tpc[joined + 1] = "panicked"
       THEN /\ mainpc' = "panicked"
            /\ stderr' = Append(stderr, MainPanicLine)
            /\ UNCHANGED joined
       ELSE /\ joined' = joined + 1
            /\ mainpc' = IF joined + 1 = handles THEN "unwrap" ELSE "join"
            /\ UNCHANGED stderr
    /\ UNCHANGED <<inputVars, flagVars, di, results, lock, handles, taskVars,
                   iter, stdout>>

\* lines 162-163: the map is taken out of the Arc and the Mutex and iterated
Unwrap ==
    /\ mainpc = "unwrap"
    /\ iter' = results
    /\ mainpc' = "emit"
    /\ UNCHANGED <<inputVars, flagVars, di, results, lock, handles, joined,
                   taskVars, outVars>>

\* a parse failure that reports and then falls through to the URL line
emission_fallthrough(with_dates, url, date) ==
    LET parsed_date == ParsedDates[date] IN
    IF with_dates
    THEN IF parsed_date.ok
         THEN [primary |-> <<DatedLine(to_rfc3339(parsed_date.fields), url)>>,
               diagnostic |-> <<>>]
         ELSE [primary |-> <<UrlLine(url)>>,
               diagnostic |-> <<DiagLine(date, url)>>]
    ELSE [primary |-> <<UrlLine(url)>>, diagnostic |-> <<>>]

\* lines 164-172: the lines one entry adds to stdout (primary) and to stderr
\* (diagnostic)
emission(with_dates, url, date) ==
    LET parsed_date == ParsedDates[date] IN
    IF with_dates
    THEN IF parsed_date.ok
         THEN [primary |-> <<DatedLine(to_rfc3339(parsed_date.fields), url)>>,
               diagnostic |-> <<>>]
         ELSE [primary |-> <<>>, diagnostic |-> <<DiagLine(date, url)>>]
    ELSE [primary |-> <<UrlLine(url)>>, diagnostic |-> <<>>]

\* lines 163-173: one turn of `for (url, date) in results`, in the map's order
Emit ==
    /\ mainpc = "emit"
    /\ \E e \in iter :
         LET lines == emission(dates, e[1], e[2])
         IN /\ iter' = iter \ {e}
            /\ stdout' = stdout \o lines.primary
            /\ stderr' = stderr \o lines.diagnostic
    /\ UNCHANGED <<inputVars, flagVars, mainpc, di, results, lock, handles,
                   joined, taskVars>>

\* line 173-174: the map is exhausted, on to the next domain
EndEmit ==
    /\ mainpc = "emit"
    /\ iter = {}
    /\ mainpc' = "domain"
    /\ UNCHANGED <<inputVars, flagVars, di, results, lock, handles, joined,
                   taskVars, iter, outVars>>

Next ==
    \/ ParseArgs
    \/ GetVersions
    \/ StartDomain
    \/ Finish
    \/ Spawn
    \/ \E p \in Providers : Fetch(p)
    \/ \E p \in Providers : Lock(p)
    \/ \E p \in Providers : Insert(p)
    \/ \E p \in Providers : Unlock(p)
    \/ Join
    \/ Unwrap
    \/ Emit
    \/ EndEmit

Spec == Init /\ [][Next]_vars

\* the same program, one provider at a time against every response
NextOneSource ==
    \/ ParseArgs
    \/ GetVersions
    \/ StartDomain
    \/ Finish
    \/ Spawn
    \/ \E p \in Providers : FetchAlone(p)
    \/ \E p \in Providers : Lock(p)
    \/ \E p \in Providers : Insert(p)
    \/ \E p \in Providers : Unlock(p)
    \/ Join
    \/ Unwrap
    \/ Emit
    \/ EndEmit

SpecOneSource == Init /\ [][NextOneSource]_vars

\* the steps of main
MainNext ==
    \/ ParseArgs
    \/ GetVersions
    \/ StartDomain
    \/ Finish
    \/ Spawn
    \/ Join
    \/ Unwrap
    \/ Emit
    \/ EndEmit

\* the steps of the thread of provider p once its call has returned
ThreadNext(p) == Lock(p) \/ Insert(p) \/ Unlock(p)

\* the run where main and every thread that can take a step eventually take
\* it, and every provider call eventually returns
SpecReturning ==
    /\ Spec
    /\ WF_vars(MainNext)
    /\ \A p \in Providers : WF_vars(Fetch(p)) /\ WF_vars(ThreadNext(p))

\* ------------------------------------------------------------------------
\* Vocabulary of the properties
\* ------------------------------------------------------------------------

Keys(map) == {e[1] : e \in map}

\* the thread of provider p is past its call of fetch_fn
Fetched(p) == tpc[p] # "none" /\ tpc[p] # "fetch"
\* what fetch_fn returned to the thread of provider p
Returned(p) == fetch_fn(p, VT_API_KEY, response[p])
Succeeded(p) == Fetched(p) /\ Returned(p).kind = "Ok"
Failed(p) == Fetched(p) /\ Returned(p).kind = "Err"

\* the records that the providers that succeeded returned
SuccessRecords == UNION {Range(Returned(p).out) : p \in {q \in Providers : Succeeded(q)}}
SuccessUrls == {w.url : w \in SuccessRecords}

\* every thread of the current domain has been joined
AllJoined == joined = Len(fetch_fns)
\* the entries the emitter has gone through
Emitted == IF AllJoined /\ (mainpc = "emit" \/ mainpc = "domain" \/ mainpc = "done")
           THEN results \ iter ELSE {}
\* the emitter is through with the current domain
EmissionOver == AllJoined /\ (mainpc = "domain" \/ mainpc = "done")

Count(seq, x) == Cardinality({i \in 1..Len(seq) : seq[i] = x})

\* ------------------------------------------------------------------------
\* C1
\* ------------------------------------------------------------------------

\* C1: once all provider threads of a domain have been joined, the URL of
\* every record returned by a provider whose fetch succeeded is a key of the
\* merged map, in every interleaving of the threads.
C1_ReturnedUrlsAreKeys ==
    AllJoined =>
        \A p \in Providers :
            Succeeded(p) =>
                \A i \in 1..Len(Returned(p).out) :
                    Returned(p).out[i].url \in Keys(results)

BothUrls == {U1, U2}

\* all three providers succeeded, two of them with two records, and the
\* threads are joined
C1_Witness ==
    /\ AllJoined
    /\ \A p \in Providers : Succeeded(p)
    /\ Len(Returned(1).out) = 2 /\ Len(Returned(2).out) = 2
    /\ Keys(results) = BothUrls

\* ------------------------------------------------------------------------
\* C2
\* ------------------------------------------------------------------------

\* C2: a provider thread whose fetch fails ends normally without touching the
\* map, and once the threads are joined the keys of the map are exactly the
\* URLs returned by the providers that succeeded (none when all failed).
C2_FailureContributesNothing ==
    /\ \A p \in Providers : Failed(p) => tpc[p] = "done" /\ lock # p
    /\ mainpc = "panicked" => \E p \in Providers : Returned(p).kind = "panic"
    /\ AllJoined => Keys(results) = SuccessUrls
    /\ AllJoined /\ (\A p \in Providers : Failed(p)) => results = {}

MixedSuccessMap == {<<U1, D2020>>, <<U2, "">>}

\* the scenario of the specification: one provider returns
\* ("20200101000000", "http://x/1"), one fails, one returns ("", "http://x/2")
C2_Witness ==
    /\ AllJoined
    /\ Failed(1)
    /\ Succeeded(2) /\ Returned(2).out = <<Wurl(D2020, U1)>>
    /\ Succeeded(3) /\ Returned(3).out = <<Wurl("", U2)>>
    /\ results = MixedSuccessMap

\* ------------------------------------------------------------------------
\* C3
\* ------------------------------------------------------------------------

\* C3: no provider outcome aborts the run: whatever response a provider
\* receives, its thread does not panic, and main does not panic on the join.
C3_NoProviderOutcomeAborts ==
    /\ \A p \in Providers : tpc[p] # "panicked"
    /\ mainpc # "panicked"

\* ------------------------------------------------------------------------
\* C4
\* ------------------------------------------------------------------------

\* a 14-digit YYYYMMDDHHMMSS string with fields in their calendar ranges
WellFormed14(date) ==
    LET c == Chars(date)
        n(i, j) == NumVal(SubSeq(c, i, j))
    IN /\ Len(c) = 14
       /\ \A i \in 1..14 : IsDigit(c[i])
       /\ n(5, 6) >= 1 /\ n(5, 6) <= 12
       /\ n(7, 8) >= 1 /\ n(7, 8) <= 28
       /\ n(9, 10) <= 23 /\ n(11, 12) <= 59 /\ n(13, 14) <= 59

\* the line `YYYY-MM-DDTHH:MM:SS+00:00 <url>` of a well-formed date
Iso8601Line(date, url) ==
    LET c == Chars(date) IN
    Fmt(<<c[1], c[2], c[3], c[4], "-", c[5], c[6], "-", c[7], c[8], "T",
          c[9], c[10], ":", c[11], c[12], ":", c[13], c[14], "+00:00",
          " ", url>>)

\* C4: in timestamped mode every emitted entry whose date is a well-formed
\* 14-digit string has exactly one line `<ISO-8601 UTC timestamp> <url>` on
\* stdout and no diagnostic on stderr.
C4_WellFormedDateIsPrinted ==
    dates =>
        \A e \in Emitted :
            WellFormed14(e[2]) =>
                /\ Count(stdout, Iso8601Line(e[2], e[1])) = 1
                /\ Count(stderr, DiagLine(e[2], e[1])) = 0

\* ------------------------------------------------------------------------
\* C5
\* ------------------------------------------------------------------------

\* line i of stdout is a line about url: it ends with it
LineOf(line, url) == line # <<>> /\ line[Len(line)] = url

\* C5: in timestamped mode an emitted entry whose date fails to parse has
\* exactly one diagnostic line naming its date and its URL and no line on
\* stdout; in URL-only mode it has its URL line; and the emitter goes through
\* every entry of the domain before the next domain starts.
C5_ParseFailureIsReported ==
    /\ \A e \in Emitted :
          IF dates
          THEN ~parse_from_str(e[2]).ok =>
                  /\ Count(stderr, DiagLine(e[2], e[1])) = 1
                  /\ \A i \in 1..Len(stdout) : ~LineOf(stdout[i], e[1])
          ELSE Count(stdout, UrlLine(e[1])) = 1
    /\ EmissionOver => Emitted = results

\* the second domain of a timestamped run is over; its map had two entries,
\* one of them with the empty date, and each has its diagnostic
C5_Witness ==
    /\ dates /\ di = 2 /\ EmissionOver
    /\ Cardinality(results) = 2
    /\ \E e \in results : e[2] = ""
    /\ \A e \in results : Count(stderr, DiagLine(e[2], e[1])) = 1
    /\ Len(stderr) = 2 /\ stdout = <<>>

\* ------------------------------------------------------------------------
\* C6
\* ------------------------------------------------------------------------

\* C6: the map never holds two entries of one URL, and in URL-only mode the
\* output of a domain is exactly one line per key of its map.
C6_OneEntryPerUrl ==
    /\ \A e1 \in results : \A e2 \in results : e1[1] = e2[1] => e1 = e2
    /\ ~dates /\ EmissionOver =>
          /\ Len(stdout) = Cardinality(Keys(results))
          /\ \A u \in Keys(results) : Count(stdout, UrlLine(u)) = 1

\* Wayback reported http://x/1 twice and CommonCrawl reported it again; the
\* output of the domain is its one line
C6_Witness ==
    /\ ~dates /\ EmissionOver
    /\ Succeeded(1) /\ Returned(1).out = <<Wurl(D2018, U1), Wurl(D2020, U1)>>
    /\ Succeeded(2) /\ Returned(2).out = <<Wurl(D2020, U1)>>
    /\ stdout = <<UrlLine(U1)>>

\* ------------------------------------------------------------------------
\* C7
\* ------------------------------------------------------------------------

\* the step is a turn of the insert loop of provider p
InsertStep(p) ==
    /\ tpc[p] = "insert" /\ res[p] # <<>>
    /\ res'[p] # res[p]

\* C7: the date of a key is the date of the last insert of its URL: a turn of
\* an insert loop leaves its record in the map, and once the threads are joined
\* every entry is a record that a provider that succeeded returned.
C7_LastInsertWins ==
    /\ [][\A p \in Providers :
            InsertStep(p) => <<Head(res[p]).url, Head(res[p]).date>> \in results']_vars
    /\ [](AllJoined =>
            \A e \in results : \E w \in SuccessRecords : e = <<w.url, w.date>>)

\* Wayback and CommonCrawl report http://x/1 with different dates
SameUrlTwoDates ==
    /\ AllJoined
    /\ Succeeded(1) /\ Returned(1).out = <<Wurl(D2018, U1), Wurl(D2018, U2)>>
    /\ Succeeded(2) /\ Returned(2).out = <<Wurl(D2020, U1)>>

\* the date of Wayback, spawned first, is the final one
C7_Witness == SameUrlTwoDates /\ <<U1, D2018>> \in results

\* the other outcome: the date of CommonCrawl is the final one
C7_WitnessOther == SameUrlTwoDates /\ <<U1, D2020>> \in results

\* ------------------------------------------------------------------------
\* C8
\* ------------------------------------------------------------------------

\* the arguments that are not flags
Positional(a) == SelectSeq(Tail(a), LAMBDA t : t \notin Flags)

\* C8: the domains are the positional arguments, or the lines of stdin when
\* there is none, and no request is made for a flag token.
C8_DomainsArePositionals ==
    mainpc # "args" =>
        /\ domains = IF Positional(args) # <<>> THEN Positional(args) ELSE stdin
        /\ \A p \in Providers :
              \A i \in 1..Len(request[p]) : request[p][i] \notin Flags

\* ------------------------------------------------------------------------
\* C9
\* ------------------------------------------------------------------------

\* the pattern a request carries: what stands between the endpoint and the
\* options
Pattern(req) == SubSeq(req, 2, Len(req) - 1)
\* `example.com/*` or `*.example.com/*`
ExpectedPattern(domain, includeSubdomains) ==
    IF includeSubdomains THEN <<"*.", domain, "/*">> ELSE <<domain, "/*">>

WellFormed(p, item, i) ==
    CASE fetch_fns[p] = "wayback" ->
           i = 1 \/ (Len(item) >= 3 /\ item[2].isStr /\ item[3].isStr)
      [] fetch_fns[p] = "common_crawl" ->
           item.json /\ item.timestamp.isStr /\ item.url.isStr
      [] fetch_fns[p] = "virus_total" -> item.url.isStr

\* the Record of a well-formed record
RecordOf(p, item) ==
    CASE fetch_fns[p] = "wayback" -> Wurl(item[2].v, item[3].v)
      [] fetch_fns[p] = "common_crawl" -> Wurl(item.timestamp.v, item.url.v)
      [] fetch_fns[p] = "virus_total" -> Wurl("", item.url.v)

\* the Records of the well-formed records of a response (Wayback's first row
\* is the header)
RECURSIVE WellFormedRecords(_, _, _)
WellFormedRecords(p, items, i) ==
    IF i > Len(items) THEN <<>>
    ELSE (IF WellFormed(p, items[i], i) /\ ~(fetch_fns[p] = "wayback" /\ i = 1)
          THEN <<RecordOf(p, items[i])>> ELSE <<>>)
         \o WellFormedRecords(p, items, i + 1)

\* C10: on a decodable response a provider returns the Records of exactly the
\* well-formed records, and they are merged: a malformed record is dropped
\* alone.
C10_MalformedRecordDroppedAlone ==
    \A p \in Providers :
        Fetched(p) /\ response[p].valid =>
            /\ Returned(p).kind = "Ok"
            /\ Returned(p).out = WellFormedRecords(p, response[p].items, 1)
            /\ AllJoined =>
                  \A w \in Range(WellFormedRecords(p, response[p].items, 1)) :
                      w.url \in Keys(results)

\* ------------------------------------------------------------------------
\* C11
\* ------------------------------------------------------------------------

\* the URLs the archive providers that succeeded returned
ArchiveUrls ==
    UNION {{w.url : w \in Range(Returned(p).out)} :
             p \in {q \in Providers : fetch_fns[q] # "virus_total" /\ Succeeded(q)}}

\* C11: with no VT_API_KEY the VirusTotal provider makes no request and
\* returns Ok with the empty list; the map of the domain is what the other
\* providers returned, and so are the lines of a URL-only run.
C11_NoKeyNoRequest ==
    VT_API_KEY = "" =>
        /\ \A p \in Providers :
              fetch_fns[p] = "virus_total" /\ Fetched(p) =>
                  /\ request[p] = <<>>
                  /\ response[p] = NoResponse
                  /\ Returned(p) = OkEmpty
                  /\ tpc[p] # "panicked"
        /\ AllJoined => Keys(results) = ArchiveUrls
        /\ ~dates /\ EmissionOver =>
              /\ Len(stdout) = Cardinality(ArchiveUrls)
              /\ \A u \in ArchiveUrls : Count(stdout, UrlLine(u)) = 1

\* a URL-only run without key: the domain is over, VirusTotal returned Ok
\* without a request, the two URLs of the archives are printed
C11_Witness ==
    /\ VT_API_KEY = "" /\ ~dates /\ EmissionOver
    /\ Succeeded(3) /\ request[3] = <<>>
    /\ Succeeded(1) /\ Succeeded(2)
    /\ Keys(results) = BothUrls /\ Len(stdout) = 2

\* ------------------------------------------------------------------------
\* C12
\* ------------------------------------------------------------------------

\* the maps a merge may start from: at most one entry per URL
MergeDates == {D2018, D2020, ""}
StartMaps ==
    {m \in SUBSET (BothUrls \X MergeDates) :
        \A e1 \in m : \A e2 \in m : e1[1] = e2[1] => e1 = e2}

\* the thread of provider p has merged its whole list and still has the lock
Merged(p) == tpc[p] = "insert" /\ res[p] = <<>>

\* C12: merging a provider's list a second time changes nothing: not in the
\* map the thread has just merged it into, and not from any other map.
C12_MergeIsIdempotent ==
    \A p \in Providers :
        Merged(p) =>
            LET list == Returned(p).out IN
            /\ merge(results, list) = results
            /\ \A m \in StartMaps :
                  LET once == merge(m, list) IN merge(once, list) = once

OneUrlLastDate == {<<U1, D2020>>}

\* Wayback has merged a list of two records of http://x/1
C12_Witness ==
    /\ Merged(1)
    /\ Returned(1).out = <<Wurl(D2018, U1), Wurl(D2020, U1)>>
    /\ results = OneUrlLastDate

\* ------------------------------------------------------------------------
\* C13
\* ------------------------------------------------------------------------

\* a line of the emitter is on stdout or stderr
IsDiagLine(line) == line # <<>> /\ Head(line) = "failed to parse date ["
LineEmitted == stdout # <<>> \/ \E i \in 1..Len(stderr) : IsDiagLine(stderr[i])
\* main reads the map: it takes it out of the Mutex or iterates it
MapRead == mainpc = "unwrap" \/ mainpc = "emit"

\* C13: the map of a domain is read, and a line of the domain is emitted, only
\* when every provider thread of the domain has been spawned, has made its
\* call and has ended: no outcome of one thread makes main go on without the
\* others.
C13_EmissionAfterAllThreads ==
    MapRead \/ LineEmitted =>
        /\ handles = Len(fetch_fns) /\ joined = Len(fetch_fns)
        /\ \A p \in Providers : Fetched(p) /\ tpc[p] = "done"

\* lines are being emitted for a domain where the first thread failed and
\* the second succeeded
C13_Witness ==
    /\ mainpc = "emit" /\ stdout # <<>> /\ iter # {}
    /\ Failed(1) /\ Succeeded(2) /\ Succeeded(3)

\* ------------------------------------------------------------------------
\* C14
\* ------------------------------------------------------------------------

\* the threads that are in their insert loop
Writers == {p \in Providers : tpc[p] = "insert"}

\* C14: at most one thread is in its insert loop, it is the one that holds the
\* lock, and the map only changes by an insert of that thread (or by the
\* fresh map of the next domain); main reads the map when no thread can write.
C14_WritesExcludeEachOther ==
    /\ [](Cardinality(Writers) <= 1)
    /\ [](\A p \in Providers : tpc[p] = "insert" <=> lock = p)
    /\ [](MapRead => lock = 0 /\ \A p \in Providers : tpc[p] = "done")
    /\ [][results' # results =>
             \/ mainpc = "domain" /\ results' = {}
             \/ lock # 0 /\ lock' = lock /\ tpc[lock] = "insert"]_vars

\* one thread is writing and the two others wait for the lock
C14_Witness ==
    /\ tpc[1] = "insert" /\ lock = 1 /\ res[1] # <<>> /\ results # {}
    /\ tpc[2] = "lock" /\ tpc[3] = "lock"

\* ------------------------------------------------------------------------
\* C15
\* ------------------------------------------------------------------------

\* the thread of provider p has inserted some records of its list, not all
MidList(p) == res[p] # <<>> /\ Len(res[p]) < Len(Returned(p).out)

\* C15 as stated: the lock is not held during a fetch, and it is not held
\* between two consecutive inserts of a thread.
C15_LockPerInsert ==
    \A p \in Providers :
        /\ tpc[p] = "fetch" => lock # p
        /\ MidList(p) => lock # p

\* C15: the lock is never held by a thread that is fetching or waiting; a
\* thread that has it keeps it from its first insert to its last, and gives it
\* back only when its list is exhausted.
C15_LockPerList ==
    /\ [](\A p \in Providers : lock = p => Succeeded(p) /\ tpc[p] = "insert")
    /\ [][\A p \in Providers : InsertStep(p) => lock = p /\ lock' = p]_vars
    /\ [][lock # 0 /\ lock' # lock => res[lock] = <<>> /\ lock' = 0]_vars

\* Wayback is between its two inserts and holds the lock; CommonCrawl waits
\* for it and VirusTotal is still fetching
C15_Witness ==
    /\ lock = 1 /\ MidList(1) /\ Len(Returned(1).out) = 2
    /\ tpc[2] = "lock" /\ res[2] # <<>>
    /\ tpc[3] = "fetch"

\* ------------------------------------------------------------------------
\* C16
\* ------------------------------------------------------------------------

\* the thread of provider p has been spawned and has not ended
Alive(p) == tpc[p] = "fetch" \/ tpc[p] = "lock" \/ tpc[p] = "insert"
\* the threads main has spawned for the current domain
Spawned == {p \in Providers : tpc[p] # "none"}

\* C16: the next domain starts only when the threads of the current one are
\* joined and its emission is over; the threads of a domain are one per
\* provider, spawned in the order of fetch_fns, and alive only between the
\* spawn and the join; a thread makes one call: once it has its answer it
\* never fetches again for the domain.
C16_DomainsInSequence ==
    /\ [][di' # di =>
             /\ di' = di + 1
             /\ di # 0 => EmissionOver /\ iter = {}
                            /\ \A p \in Providers : tpc[p] = "done"]_vars
    /\ [](Spawned = 1..handles /\ handles <= Len(fetch_fns))
    /\ []((\E p \in Providers : Alive(p)) =>
             mainpc = "spawn" \/ mainpc = "join" \/ mainpc = "panicked")
    /\ [][\A p \in Providers :
             Fetched(p) /\ di' = di =>
                 /\ tpc'[p] # "fetch"
                 /\ request'[p] = request[p] /\ response'[p] = response[p]]_vars
    /\ [](AllJoined => \A p \in Providers : Fetched(p))

\* the three threads of the second domain are alive
C16_Witness ==
    /\ di = 2 /\ mainpc = "join"
    /\ \A p \in Providers : Alive(p)

\* ------------------------------------------------------------------------
\* C17
\* ------------------------------------------------------------------------

\* a call of the current domain has not returned
CallPending == \E p \in Providers : tpc[p] = "fetch"
\* a provider thread has panicked: its call did not return
CallPanicked == \E p \in Providers : tpc[p] = "panicked"

\* C17: when every call returns, a domain whose threads are spawned is
\* eventually joined and emitted, and the run eventually ends after the last
\* domain (at once under --get-versions); as long as a call of a domain has not returned, no line of the
\* domain is emitted, main is not past the join, and the next domain does not
\* start.
C17_WaitsForEveryCall ==
    /\ \A k \in 1..MaxArgs :
          (di = k /\ mainpc = "spawn") ~> ((di = k /\ EmissionOver) \/ CallPanicked)
    /\ <>(CallPanicked
           \/ (mainpc = "done" /\ (get_versions_flag \/ di = Len(domains))))
    /\ [](CallPending =>
             /\ ~LineEmitted /\ iter = {}
             /\ mainpc = "spawn" \/ mainpc = "join" \/ mainpc = "panicked")
    /\ [][CallPending /\ (\E p \in Providers : tpc[p] = "fetch" /\ tpc'[p] = "fetch")
             => di' = di /\ stdout' = stdout]_vars

\* the call of VirusTotal has not returned; the two others have merged their
\* records and their threads are joined, main waits at the third join
C17_Witness ==
    /\ tpc[3] = "fetch" /\ tpc[1] = "done" /\ tpc[2] = "done"
    /\ mainpc = "join" /\ joined = 2
    /\ Keys(results) = BothUrls /\ stdout = <<>>
    /\ di < Len(domains)

\* ------------------------------------------------------------------------
\* C18
\* ------------------------------------------------------------------------

\* C18: no key of the map is the empty string.
C18_NoEmptyKey == "" \notin Keys(results)

\* ------------------------------------------------------------------------
\* C19
\* ------------------------------------------------------------------------

\* the number of lines the emitter has written for the current domain
DiagLines == {i \in 1..Len(stderr) : IsDiagLine(stderr[i])}
LinesEmitted == Len(stdout) + Cardinality(DiagLines)

\* C19: a domain starts with an empty map and with nothing left of the threads
\* and of the emission of the domain before; once its threads are joined its
\* map holds the URLs its own providers returned, no other; the emitter
\* writes one line per entry, and in URL-only mode the lines of the domain
\* are the URLs returned for it, each once.
C19_FreshMapPerDomain ==
    /\ [][di' # di =>
             /\ results' = {} /\ iter' = {}
             /\ res' = NoRecords /\ response' = NoResponses]_vars
    /\ []((mainpc = "spawn" /\ handles = 0) => results = {})
    /\ [](AllJoined => Keys(results) = SuccessUrls)
    /\ [](mainpc = "emit" \/ EmissionOver => LinesEmitted = Cardinality(Emitted))
    /\ [](~dates /\ EmissionOver =>
             /\ Len(stdout) = Cardinality(SuccessUrls)
             /\ \A u \in SuccessUrls : Count(stdout, UrlLine(u)) = 1)

\* the second domain of a URL-only run is over: one provider returned
\* http://x/1 for it, and its output is that line
C19_Witness ==
    /\ di = 2 /\ ~dates /\ EmissionOver
    /\ Failed(1) /\ Failed(3)
    /\ Succeeded(2) /\ Returned(2).out = <<Wurl(D2020, U1)>>
    /\ results = OneUrlLastDate
    /\ stdout = <<UrlLine(U1)>>

\* ------------------------------------------------------------------------
\* C20
\* ------------------------------------------------------------------------

\* the orders in which the providers can take the lock
LockOrders == {f \in [Providers -> Providers] : \A p, q \in Providers : f[p] = f[q] => p = q}

\* the list the thread of provider p merges
Merges(p) == IF Succeeded(p) THEN Returned(p).out ELSE <<>>

\* the map after the threads have merged their lists one after another in
\* the order f
RECURSIVE SerialMerge(_, _, _)
SerialMerge(map, f, i) ==
    IF i > Len(fetch_fns) THEN map
    ELSE SerialMerge(merge(map, Merges(f[i])), f, i + 1)

\* C20: once the threads are joined, the map is the result of merging the
\* lists of the providers that succeeded one whole list after another, in one
\* of the orders of the providers.
C20_MergeIsSerial ==
    AllJoined => \E f \in LockOrders : results = SerialMerge({}, f, 1)

BothUrlsFirstDate == {<<U1, D2018>>, <<U2, D2018>>}

\* Wayback and CommonCrawl report both URLs with different dates, and both
\* final dates are those of Wayback
C20_Witness ==
    /\ AllJoined
    /\ Succeeded(1) /\ Returned(1).out = <<Wurl(D2018, U1), Wurl(D2018, U2)>>
    /\ Succeeded(2) /\ Returned(2).out = <<Wurl(D2020, U1), Wurl(D2020, U2)>>
    /\ results = BothUrlsFirstDate

====
